---- MODULE Spec2Model ----
(***************************************************************************)
(* refinebio foreman: the salmon reconciliation command                    *)
(* (rerun_salmon_old_samples.py), the retry command (retry_samples.py)     *)
(* and the job helper of the GEO downloader test (test_geo.py).            *)
(*                                                                         *)
(* The store is the Django database.  Management commands run in           *)
(* autocommit mode, so every save() is a step of its own and may raise.    *)
(***************************************************************************)
EXTENDS Integers, Sequences, FiniteSets, TLC

\* ------------------------------------------------------------------ bounds
MaxSamples == 2
MaxResults == 2
MaxFiles == 3
MaxScanned == 5
MaxPasses == 2
MaxBatch == 2
MaxHelperCalls == 1

Samples == 1..MaxSamples
Files == 1..MaxFiles
ScannedSamples == 1..MaxScanned

NULL == "NULL"

\* ------------------------------------------------------ generic helpers
RECURSIVE SetToSeq(_)
\* The elements of a set of integers in ascending (primary key) order.
SetToSeq(S) ==
  IF S = {} THEN <<>>
  ELSE LET m == CHOOSE x \in S : \A y \in S : x <= y
       IN <<m>> \o SetToSeq(S \ {m})

Range(q) == {q[i] : i \in DOMAIN q}

\* ------------------------------------------------------------ the store
\* Organism indices: primary key, created_at and salmon_version.  Indices 2
\* and 3 carry the same salmon version and different creation times.
OrganismIndices == {1, 2, 3}
IndexCreatedAt(x) == x
IndexSalmonVersion(x) == IF x = 1 THEN "0.9.0" ELSE "1.0.0"

SALMON_QUANT == "Salmon Quant"
OTHER_PROCESSOR == "Tximport"

\* Experiments by accession code, in primary key order.
ExperimentOrder == <<"E1", "E2", "E3", "E4">>
Experiments == Range(ExperimentOrder)
Technology(e) == IF e = "E4" THEN "MICROARRAY" ELSE "RNA-SEQ"
NumProcessedSamples(e) == IF e = "E3" THEN 1 ELSE 0
ExperimentSamples(e) ==
  CASE e = "E1" -> Samples
    [] e = "E2" -> Samples \ {1}
    [] OTHER -> {1}

\* Original files: raw-data flag and filename by primary key.  A filename is
\* the sequence of its characters.
FileTable == <<
  [has_raw |-> FALSE, filename |-> <<"a", ".", "t", "x", "t">>],
  [has_raw |-> TRUE,  filename |-> <<"b", ".", "C", "E", "L">>],
  [has_raw |-> TRUE,  filename |-> <<"c", ".", "t", "x", "t">>],
  [has_raw |-> TRUE,  filename |-> <<"d", ".", "c", "e", "l">>],
  [has_raw |-> FALSE, filename |-> <<"e", ".", "C", "E", "L">>],
  [has_raw |-> TRUE,  filename |-> <<"x", ".", "C", "e", "l", ".", "x">>],
  [has_raw |-> TRUE,  filename |-> <<"c", ".", "e", ".", "l", "C", "L", "E">>] >>

VARIABLES
  results,         \* ComputationalResult rows in creation order
  file_sample,     \* OriginalFileSampleAssociation: the sample of each file
  is_downloaded,   \* OriginalFile.is_downloaded
  local_file,      \* whether the file's local copy exists
  processor_jobs,  \* ProcessorJob rows; the row number is the primary key
  assocs,          \* ProcessorJobOriginalFileAssociation rows
  sent,            \* jobs the message queue accepted, in order
  pc,              \* where each command process is
  accession_code,  \* options["accession_code"] of each process
  exit_status,     \* exit status of each process (NULL while running)
  exp_queue,       \* experiments the process has still to visit
  sample_queue,    \* stale samples the detector has still to visit
  file_idx,        \* position of the factory's loop over original_files
  runs,            \* history: the detector's invocations
  calls,           \* history: the factory's invocations
  sample_source,   \* Sample.source_database of the samples the retry command sees
  computed_files,  \* sample.computed_files.count()
  retry_pc,        \* where the retry command is
  source_database, \* options["source_database"]
  retry_exit,      \* exit status of the retry command (NULL while running)
  page,            \* number of the page the variable page holds
  page_pos,        \* position of the loop over page.object_list
  passes,          \* history: how often the while body was entered
  downloader_jobs, \* DownloaderJob rows with their files
  cooldowns,       \* history: how many sleeps have elapsed
  helper_calls     \* history: invocations of the test helper

vars == <<results, file_sample, is_downloaded, local_file, processor_jobs,
          assocs, sent, pc, accession_code, exit_status, exp_queue,
          sample_queue, file_idx, runs, calls, sample_source, computed_files,
          retry_pc, source_database, retry_exit, page, page_pos, passes,
          downloader_jobs, cooldowns, helper_calls>>

retryVars == <<sample_source, computed_files, retry_pc, source_database,
               retry_exit, page, page_pos, passes, downloader_jobs, cooldowns>>
commandVars == <<pc, accession_code, exit_status, exp_queue, sample_queue,
                 file_idx, runs, calls>>
storeVars == <<is_downloaded, local_file, processor_jobs, assocs, sent>>
dataVars == <<results, file_sample>>

Procs == DOMAIN pc

\* ------------------------------------------------------ Pipeline Selector
UpperChar(ch) ==
  CASE ch = "a" -> "A" [] ch = "b" -> "B" [] ch = "c" -> "C" [] ch = "d" -> "D"
    [] ch = "e" -> "E" [] ch = "l" -> "L" [] ch = "t" -> "T" [] ch = "x" -> "X"
    [] OTHER -> ch

\* str.upper()
Upper(name) == [i \in DOMAIN name |-> UpperChar(name[i])]

\* sub in name
Contains(sub, name) ==
  \E i \in 1..(Len(name) - Len(sub) + 1) : SubSeq(name, i, i + Len(sub) - 1) = sub

CEL == <<"C", "E", "L">>

\* determine_processor_pipeline(sample_object, original_file): section 4.1.
determine_processor_pipeline(sample, file) ==
  IF ~FileTable[file].has_raw THEN "NONE"
  ELSE IF Contains(CEL, Upper(FileTable[file].filename)) THEN "AFFY_TO_PCL"
  ELSE "AGILENT_TWOCOLOR_TO_PCL"

\* determine_ram_amount(sample_object, processor_job): opaque sizing table.
determine_ram_amount(sample, pipeline) ==
  IF pipeline = "AFFY_TO_PCL" THEN 2048 ELSE 1024

\* ------------------------------------------------------- store queries
\* sample.original_files.all(), in primary key order.
OriginalFiles(s) == SetToSeq({f \in Files : file_sample[f] = s})

\* get_quant_results_for_experiment(experiment): the quantification results
\* of the experiment's samples (row numbers of results).
get_quant_results_for_experiment(e) ==
  {i \in DOMAIN results :
     /\ results[i].processor = SALMON_QUANT
     /\ results[i].sample \in ExperimentSamples(e)}

RECURSIVE OrderByCreatedAtDesc(_)
\* Rows <<created_at, salmon_version>> ordered by descending created_at.
OrderByCreatedAtDesc(rows) ==
  IF rows = {} THEN <<>>
  ELSE LET m == CHOOSE x \in rows : \A y \in rows : y[1] <= x[1]
       IN <<m[2]>> \o OrderByCreatedAtDesc(rows \ {m})

\* quant_results.order_by('-organism_index__created_at')
\*              .values_list('organism_index__salmon_version', flat=True).distinct()
\* The ordering column is part of the SELECT DISTINCT row, so two indices of
\* the same version and different creation times give two entries.
SalmonVersions(e) ==
  OrderByCreatedAtDesc(
    {<<IndexCreatedAt(results[i].index), IndexSalmonVersion(results[i].index)>> :
       i \in get_quant_results_for_experiment(e)})

\* The subquery newest_computational_results...[:1] for one sample: the
\* version of its newest quantification result, NULL when it has none.
NewestSalmonVersion(s) ==
  LET mine == {i \in DOMAIN results :
                 results[i].sample = s /\ results[i].processor = SALMON_QUANT}
  IN IF mine = {} THEN NULL
     ELSE IndexSalmonVersion(results[CHOOSE i \in mine : \A j \in mine : j <= i].index)

\* Mutant: filter() where the code says exclude().
StaleSamples_Filter(e, latest_salmon_version) ==
  SetToSeq({s \in ExperimentSamples(e) :
              NewestSalmonVersion(s) = latest_salmon_version})

\* Mutant: the comparison made in Python, where None != latest holds.
StaleSamples_NullIsStale(e, latest_salmon_version) ==
  SetToSeq({s \in ExperimentSamples(e) :
              NewestSalmonVersion(s) # latest_salmon_version})

\* Mutant: a sample one of whose jobs the queue has accepted is skipped.
StaleSamples_SkipsSubmitted(e, latest_salmon_version) ==
  SetToSeq({s \in ExperimentSamples(e) :
              /\ NewestSalmonVersion(s) # NULL
              /\ NewestSalmonVersion(s) # latest_salmon_version
              /\ \A i \in DOMAIN sent :
                   \A a \in DOMAIN assocs :
                     assocs[a].processor_job = sent[i]
                     => file_sample[assocs[a].original_file] # s})

\* Mutant: a sample that already has a job over one of its files is skipped.
StaleSamples_SkipsQueued(e, latest_salmon_version) ==
  SetToSeq({s \in ExperimentSamples(e) :
              /\ NewestSalmonVersion(s) # NULL
              /\ NewestSalmonVersion(s) # latest_salmon_version
              /\ \A a \in DOMAIN assocs : file_sample[assocs[a].original_file] # s})

\* experiment.samples.all().annotate(salmon_version=...).exclude(salmon_version=latest):
\* SQL NOT (salmon_version = latest), which a NULL annotation does not satisfy.
StaleSamples(e, latest_salmon_version) ==
  SetToSeq({s \in ExperimentSamples(e) :
              /\ NewestSalmonVersion(s) # NULL
              /\ NewestSalmonVersion(s) # latest_salmon_version})

\* .filter(technology='RNA-SEQ', num_processed_samples=0)
IsEligible(e) == Technology(e) = "RNA-SEQ" /\ NumProcessedSamples(e) = 0

\* Mutant: the filter on technology and processed samples is missing.
EligibleExperiments_Unfiltered == ExperimentOrder

\* eligible_experiments, in primary key order.
EligibleExperiments == SelectSeq(ExperimentOrder, IsEligible)

\* ------------------------------------------------------------ histories
\* The latest detector invocation and factory invocation of process p.
CurRun(p) == CHOOSE i \in DOMAIN runs :
               runs[i].proc = p /\ \A j \in DOMAIN runs : runs[j].proc = p => j <= i
CurCall(p) == CHOOSE i \in DOMAIN calls :
               calls[i].proc = p /\ \A j \in DOMAIN calls : calls[j].proc = p => j <= i

\* --------------------------------------------- the reconciliation command
\* An uncaught exception: the command process ends with a traceback, the
\* running detector and factory invocations are abandoned.
Raise(p, why) ==
  /\ pc' = [pc EXCEPT ![p] = "aborted"]
  /\ exit_status' = [exit_status EXCEPT ![p] = 1]
  /\ runs' = [runs EXCEPT ![CurRun(p)].status = "raised"]

AccessionOptions == {NULL} \cup Experiments \cup {"EX"}

\* Mutant: the filter on the accession code is missing.
FindExperiment_Unfiltered(code) == ExperimentOrder[1]

\* Experiment.objects.all().filter(accession_code=code).first()
FindExperiment(code) == IF code \in Experiments THEN code ELSE NULL

\* Command.handle up to the first detector invocation.
Handle(p) ==
  /\ UNCHANGED <<retryVars, helper_calls>>
  /\ pc[p] = "start"
  /\ \E code \in AccessionOptions :
       /\ accession_code' = [accession_code EXCEPT ![p] = code]
       /\ IF code = NULL
          THEN /\ exp_queue' = [exp_queue EXCEPT ![p] = EligibleExperiments]
               /\ pc' = [pc EXCEPT ![p] = "experiments"]
               /\ UNCHANGED exit_status
          ELSE IF FindExperiment(code) = NULL
          THEN /\ pc' = [pc EXCEPT ![p] = "exited"]
               /\ exit_status' = [exit_status EXCEPT ![p] = 1]
               /\ UNCHANGED exp_queue
          ELSE /\ exp_queue' = [exp_queue EXCEPT ![p] = <<FindExperiment(code)>>]
               /\ pc' = [pc EXCEPT ![p] = "experiments"]
               /\ UNCHANGED exit_status
  /\ UNCHANGED <<dataVars, storeVars, sample_queue, file_idx, runs, calls>>

\* update_salmon_versions up to its loop over the stale samples.
UpdateSalmonVersions(p) ==
  /\ UNCHANGED <<retryVars, helper_calls>>
  /\ pc[p] = "experiments"
  /\ exp_queue[p] # <<>>
  /\ LET experiment == Head(exp_queue[p])
         salmon_versions == SalmonVersions(experiment)
         run == [proc |-> p, experiment |-> experiment, status |-> "running",
                 latest |-> IF Len(salmon_versions) <= 1 THEN NULL
                            ELSE salmon_versions[1]]
     IN /\ exp_queue' = [exp_queue EXCEPT ![p] = Tail(@)]
        /\ IF Len(salmon_versions) <= 1
           THEN /\ runs' = Append(runs, [run EXCEPT !.status = "returned"])
                /\ UNCHANGED <<pc, sample_queue>>
           ELSE /\ runs' = Append(runs, run)
                /\ sample_queue' = [sample_queue EXCEPT ![p] =
                                      StaleSamples(experiment, salmon_versions[1])]
                /\ pc' = [pc EXCEPT ![p] = "samples"]
  /\ UNCHANGED <<dataVars, storeVars, accession_code, exit_status, file_idx, calls>>

\* Mutant: the early return is missing.
HasNoFiles_Never(original_files) == FALSE

\* len(original_files) == 0
HasNoFiles(original_files) == Len(original_files) = 0

\* Mutant: the job is saved before its RAM amount is computed.
JobsWhenSizingRaises_SavedFirst(jobs, job) == Append(jobs, job)

\* determine_ram_amount raises in the statement before processor_job.save():
\* the job is not persisted.
JobsWhenSizingRaises(jobs, job) == jobs

\* create_processor_job_for_original_files up to processor_job.save().
CreateProcessorJob(p) ==
  /\ UNCHANGED <<retryVars, helper_calls>>
  /\ pc[p] = "samples"
  /\ sample_queue[p] # <<>>
  /\ LET sample == Head(sample_queue[p])
         original_files == OriginalFiles(sample)
         call == [proc |-> p, run |-> CurRun(p), sample |-> sample,
                  files |-> original_files, pipeline |-> NULL,
                  status |-> "returned", job |-> 0, failure |-> NULL]
     IN /\ sample_queue' = [sample_queue EXCEPT ![p] = Tail(@)]
        /\ IF HasNoFiles(original_files)
           THEN /\ calls' = Append(calls, call)
                /\ UNCHANGED <<pc, exit_status, runs, file_idx, processor_jobs>>
           ELSE IF Len(original_files) = 0
           THEN \* original_files[0] of an empty list: IndexError
                /\ calls' = Append(calls, [call EXCEPT !.status = "raised",
                                                        !.failure = "index"])
                /\ Raise(p, "index")
                /\ UNCHANGED <<file_idx, processor_jobs>>
           ELSE LET sample_object == file_sample[original_files[1]]
                    pipeline_to_apply ==
                      determine_processor_pipeline(sample_object, original_files[1])
                    begun == [call EXCEPT !.pipeline = pipeline_to_apply,
                                          !.status = "running"]
                IN IF pipeline_to_apply = "NONE"
                   THEN /\ calls' = Append(calls, begun)
                        /\ pc' = [pc EXCEPT ![p] = "clear"]
                        /\ file_idx' = [file_idx EXCEPT ![p] = 1]
                        /\ UNCHANGED <<exit_status, runs, processor_jobs>>
                   ELSE \E outcome \in {"saved", "sizing", "store"} :
                          IF outcome = "saved"
                          THEN /\ processor_jobs' = Append(processor_jobs,
                                     [pipeline_applied |-> pipeline_to_apply,
                                      ram_amount |-> determine_ram_amount(
                                                       sample_object, pipeline_to_apply),
                                      call |-> Len(calls) + 1])
                               /\ calls' = Append(calls,
                                     [begun EXCEPT !.job = Len(processor_jobs) + 1])
                               /\ pc' = [pc EXCEPT ![p] = "assoc"]
                               /\ file_idx' = [file_idx EXCEPT ![p] = 1]
                               /\ UNCHANGED <<exit_status, runs>>
                          ELSE \* determine_ram_amount or processor_job.save() raises
                               /\ calls' = Append(calls,
                                     [begun EXCEPT !.status = "raised",
                                                   !.failure = outcome])
                               /\ Raise(p, outcome)
                               /\ processor_jobs' =
                                    IF outcome = "sizing"
                                    THEN JobsWhenSizingRaises(processor_jobs,
                                           [pipeline_applied |-> pipeline_to_apply,
                                            ram_amount |-> NULL,
                                            call |-> Len(calls) + 1])
                                    ELSE processor_jobs
                               /\ UNCHANGED file_idx
  /\ UNCHANGED <<dataVars, is_downloaded, local_file, assocs, sent,
                 accession_code, exp_queue>>

\* Mutant: only the file the pipeline was selected for is cleared.
ClearTargets_FirstOnly(original_files) == <<original_files[1]>>

\* for original_file in original_files (the loop of the NONE branch)
ClearTargets(original_files) == original_files

\* One turn of the loop of the NONE branch: delete_local_file(),
\* is_downloaded = False, save().
ClearDownloaded(p) ==
  /\ UNCHANGED <<retryVars, helper_calls>>
  /\ pc[p] = "clear"
  /\ LET c == CurCall(p)
         targets == ClearTargets(calls[c].files)
         f == targets[file_idx[p]]
     IN /\ local_file' = [local_file EXCEPT ![f] = FALSE]
        /\ \E saved \in BOOLEAN :
             IF saved
             THEN /\ is_downloaded' = [is_downloaded EXCEPT ![f] = FALSE]
                  /\ IF file_idx[p] >= Len(targets)
                     THEN /\ pc' = [pc EXCEPT ![p] = "samples"]
                          /\ calls' = [calls EXCEPT ![c].status = "returned"]
                          /\ UNCHANGED file_idx
                     ELSE /\ file_idx' = [file_idx EXCEPT ![p] = @ + 1]
                          /\ UNCHANGED <<pc, calls>>
                  /\ UNCHANGED <<exit_status, runs>>
             ELSE /\ calls' = [calls EXCEPT ![c].status = "raised",
                                            ![c].failure = "store"]
                  /\ Raise(p, "store")
                  /\ UNCHANGED <<is_downloaded, file_idx>>
  /\ UNCHANGED <<dataVars, processor_jobs, assocs, sent, accession_code,
                 exp_queue, sample_queue>>

\* Mutant: every association points to the first file.
NewAssociation_FirstFile(job, original_files, i) ==
  [processor_job |-> job, original_file |-> original_files[1]]

\* assoc.original_file = original_file; assoc.processor_job = processor_job
NewAssociation(job, original_files, i) ==
  [processor_job |-> job, original_file |-> original_files[i]]

\* One turn of the association loop: assoc.save().
SaveAssociation(p) ==
  /\ UNCHANGED <<retryVars, helper_calls>>
  /\ pc[p] = "assoc"
  /\ LET c == CurCall(p)
     IN \E saved \in BOOLEAN :
          IF saved
          THEN /\ assocs' = Append(assocs,
                     NewAssociation(calls[c].job, calls[c].files, file_idx[p]))
               /\ IF file_idx[p] >= Len(calls[c].files)
                  THEN /\ pc' = [pc EXCEPT ![p] = "send"]
                       /\ UNCHANGED file_idx
                  ELSE /\ file_idx' = [file_idx EXCEPT ![p] = @ + 1]
                       /\ UNCHANGED pc
               /\ UNCHANGED <<exit_status, runs, calls>>
          ELSE /\ calls' = [calls EXCEPT ![c].status = "raised",
                                         ![c].failure = "store"]
               /\ Raise(p, "store")
               /\ UNCHANGED <<assocs, file_idx>>
  /\ UNCHANGED <<dataVars, is_downloaded, local_file, processor_jobs, sent,
                 accession_code, exp_queue, sample_queue>>

\* Mutant: the except clause re-raises.
SendFailurePropagates_Reraise == TRUE

\* except: pass
SendFailurePropagates == FALSE

\* try: send_job(pipeline_to_apply, processor_job) except: pass
SendJob(p) ==
  /\ UNCHANGED <<retryVars, helper_calls>>
  /\ pc[p] = "send"
  /\ LET c == CurCall(p)
     IN \E accepted \in BOOLEAN :
          IF accepted
          THEN /\ sent' = Append(sent, calls[c].job)
               /\ calls' = [calls EXCEPT ![c].status = "returned"]
               /\ pc' = [pc EXCEPT ![p] = "samples"]
               /\ UNCHANGED <<exit_status, runs>>
          ELSE IF SendFailurePropagates
          THEN /\ calls' = [calls EXCEPT ![c].status = "raised",
                                         ![c].failure = "dispatch"]
               /\ Raise(p, "dispatch")
               /\ UNCHANGED sent
          ELSE /\ calls' = [calls EXCEPT ![c].status = "returned",
                                         ![c].failure = "dispatch"]
               /\ pc' = [pc EXCEPT ![p] = "samples"]
               /\ UNCHANGED <<sent, exit_status, runs>>
  /\ UNCHANGED <<dataVars, is_downloaded, local_file, processor_jobs, assocs,
                 accession_code, exp_queue, sample_queue, file_idx>>

\* The loop over the stale samples is exhausted: update_salmon_versions returns.
DetectorReturns(p) ==
  /\ UNCHANGED <<retryVars, helper_calls>>
  /\ pc[p] = "samples"
  /\ sample_queue[p] = <<>>
  /\ runs' = [runs EXCEPT ![CurRun(p)].status = "returned"]
  /\ pc' = [pc EXCEPT ![p] = "experiments"]
  /\ UNCHANGED <<dataVars, storeVars, accession_code, exit_status, exp_queue,
                 sample_queue, file_idx, calls>>

\* No experiment is left: the command ends.
CommandEnds(p) ==
  /\ UNCHANGED <<retryVars, helper_calls>>
  /\ pc[p] = "experiments"
  /\ exp_queue[p] = <<>>
  /\ pc' = [pc EXCEPT ![p] = "done"]
  /\ exit_status' = [exit_status EXCEPT ![p] = 0]
  /\ UNCHANGED <<dataVars, storeVars, accession_code, exp_queue, sample_queue,
                 file_idx, runs, calls>>

\* ------------------------------------------------------- specification
RECURSIVE SeqsUpTo(_, _)
\* The sequences over S of length at most n.
SeqsUpTo(S, n) ==
  IF n = 0 THEN {<<>>}
  ELSE LET shorter == SeqsUpTo(S, n - 1)
       IN shorter \cup {Append(q, x) : q \in shorter, x \in S}

ResultRows ==
  [sample : Samples, processor : {SALMON_QUANT}, index : OrganismIndices]
  \cup [sample : {1}, processor : {OTHER_PROCESSOR}, index : {3}]

\* The retry command is not running and sees no sample.
RetryIdle ==
  /\ sample_source = <<>>
  /\ computed_files = <<>>
  /\ retry_pc = "idle"
  /\ source_database = NULL
  /\ retry_exit = NULL
  /\ page = 0
  /\ page_pos = 0
  /\ passes = 0
  /\ downloader_jobs = <<>>
  /\ cooldowns = 0

\* The reconciliation command is not running.
CommandIdle ==
  /\ pc = <<>>
  /\ accession_code = <<>>
  /\ exit_status = <<>>
  /\ exp_queue = <<>>
  /\ sample_queue = <<>>
  /\ file_idx = <<>>
  /\ runs = <<>>
  /\ calls = <<>>

Init ==
  /\ results \in SeqsUpTo(ResultRows, MaxResults)
  /\ file_sample \in [Files -> Samples]
  /\ is_downloaded = [f \in Files |-> TRUE]
  /\ local_file = [f \in Files |-> TRUE]
  /\ processor_jobs = <<>>
  /\ assocs = <<>>
  /\ sent = <<>>
  /\ pc = [p \in {1} |-> "start"]
  /\ accession_code = [p \in {1} |-> NULL]
  /\ exit_status = [p \in {1} |-> NULL]
  /\ exp_queue = [p \in {1} |-> <<>>]
  /\ sample_queue = [p \in {1} |-> <<>>]
  /\ file_idx = [p \in {1} |-> 0]
  /\ runs = <<>>
  /\ calls = <<>>
  /\ RetryIdle
  /\ helper_calls = <<>>

Next ==
  \/ \E p \in Procs : Handle(p)
  \/ \E p \in Procs : UpdateSalmonVersions(p)
  \/ \E p \in Procs : CreateProcessorJob(p)
  \/ \E p \in Procs : ClearDownloaded(p)
  \/ \E p \in Procs : SaveAssociation(p)
  \/ \E p \in Procs : SendJob(p)
  \/ \E p \in Procs : DetectorReturns(p)
  \/ \E p \in Procs : CommandEnds(p)

Spec == Init /\ [][Next]_vars

\* Two command processes started on the same store, whose samples have one
\* quantification result each, sample by sample of the next organism index.
Sweeps == {1, 2}

ConcurrentInit ==
  /\ results = [i \in 1..MaxResults |->
                  [sample |-> ((i - 1) % MaxSamples) + 1,
                   processor |-> SALMON_QUANT,
                   index |-> ((i - 1) % 3) + 1]]
  /\ file_sample \in [Files -> Samples]
  /\ is_downloaded = [f \in Files |-> TRUE]
  /\ local_file = [f \in Files |-> TRUE]
  /\ processor_jobs = <<>>
  /\ assocs = <<>>
  /\ sent = <<>>
  /\ pc = [p \in Sweeps |-> "start"]
  /\ accession_code = [p \in Sweeps |-> NULL]
  /\ exit_status = [p \in Sweeps |-> NULL]
  /\ exp_queue = [p \in Sweeps |-> <<>>]
  /\ sample_queue = [p \in Sweeps |-> <<>>]
  /\ file_idx = [p \in Sweeps |-> 0]
  /\ runs = <<>>
  /\ calls = <<>>
  /\ RetryIdle
  /\ helper_calls = <<>>

\* The steps of the two processes interleave freely: the code takes no lock.
ConcurrentSpec == ConcurrentInit /\ [][Next]_vars

\* ------------------------------------------------------ the retry command
\* PAGE_SIZE=2000, scaled down to 2.
PAGE_SIZE == 2

\* Sample.objects.filter(source_database="SRA"), in primary key order.
sra_samples == SetToSeq({s \in DOMAIN sample_source : sample_source[s] = "SRA"})

\* Paginator.num_pages (an empty first page is allowed).
NumPages(object_list, per_page) ==
  IF Len(object_list) = 0 THEN 1
  ELSE (Len(object_list) + per_page - 1) \div per_page

\* Page.object_list of page `number`.
PageObjects(object_list, per_page, number) ==
  SubSeq(object_list, (number - 1) * per_page + 1,
         IF number * per_page < Len(object_list)
         THEN number * per_page ELSE Len(object_list))

\* Page.has_next()
HasNext(object_list, per_page, number) == number < NumPages(object_list, per_page)

\* create_downloader_job(original_files, force=True): section 4.5, a new
\* DownloaderJob over the files.
create_downloader_job(sample, original_files, force) ==
  [original_files |-> original_files, force |-> force,
   sample |-> sample, pass |-> passes, cooldowns |-> cooldowns]

\* Mutant: the test of the computed files is missing.
NeedsRetry_Always(count) == TRUE

\* sample.computed_files.count() == 0
NeedsRetry(count) == count = 0

\* The page the variable page holds when the while test is made again: the
\* loop body never assigns it.
PageAfterSleep(number) == number

\* Mutant: the test of the option is missing.
SourceDatabaseMissing_Never(option) == FALSE

\* options["source_database"] is None
SourceDatabaseMissing(option) == option = NULL

\* Mutant: the sleep is missing.
CooldownsAfterSleep_NoSleep(n) == n

\* time.sleep(60 * 5): one more cooldown has elapsed.
CooldownsAfterSleep(n) == n + 1

\* Command.handle up to the while loop.  paginator.page() is read as the
\* first page.
RetryHandle ==
  /\ retry_pc = "start"
  /\ \E option \in {NULL, "SRA", "GEO"} :
       /\ source_database' = option
       /\ IF SourceDatabaseMissing(option)
          THEN /\ retry_pc' = "exited"
               /\ retry_exit' = 1
               /\ UNCHANGED page
          ELSE /\ retry_pc' = "while"
               /\ page' = 1
               /\ UNCHANGED retry_exit
  /\ UNCHANGED <<dataVars, storeVars, commandVars, helper_calls, sample_source,
                 computed_files, page_pos, passes, downloader_jobs, cooldowns>>

\* while page.has_next()
RetryWhile ==
  /\ retry_pc = "while"
  /\ IF HasNext(sra_samples, PAGE_SIZE, page)
     THEN /\ passes < MaxPasses
          /\ passes' = passes + 1
          /\ page_pos' = 1
          /\ retry_pc' = IF PageObjects(sra_samples, PAGE_SIZE, page) = <<>>
                         THEN "sleep" ELSE "page"
          /\ UNCHANGED retry_exit
     ELSE /\ retry_pc' = "done"
          /\ retry_exit' = 0
          /\ UNCHANGED <<passes, page_pos>>
  /\ UNCHANGED <<dataVars, storeVars, commandVars, helper_calls, sample_source,
                 computed_files, source_database, page, downloader_jobs, cooldowns>>

\* One turn of for sample in page.object_list.
RetrySample ==
  /\ retry_pc = "page"
  /\ LET object_list == PageObjects(sra_samples, PAGE_SIZE, page)
         sample == object_list[page_pos]
     IN /\ IF NeedsRetry(computed_files[sample])
           THEN downloader_jobs' = Append(downloader_jobs,
                  create_downloader_job(sample, OriginalFiles(sample), TRUE))
           ELSE UNCHANGED downloader_jobs
        /\ IF page_pos >= Len(object_list)
           THEN retry_pc' = "sleep" /\ UNCHANGED page_pos
           ELSE page_pos' = page_pos + 1 /\ UNCHANGED retry_pc
  /\ UNCHANGED <<dataVars, storeVars, commandVars, helper_calls, sample_source,
                 computed_files, source_database, retry_exit, page, passes,
                 cooldowns>>

\* time.sleep(60 * 5), then back to the while test.
RetrySleep ==
  /\ retry_pc = "sleep"
  /\ retry_pc' = "while"
  /\ page' = PageAfterSleep(page)
  /\ cooldowns' = CooldownsAfterSleep(cooldowns)
  /\ UNCHANGED <<dataVars, storeVars, commandVars, helper_calls, sample_source,
                 computed_files, source_database, retry_exit, page_pos, passes,
                 downloader_jobs>>

RetryInit ==
  /\ results = <<>>
  /\ file_sample = [f \in Files |-> ((f - 1) % MaxScanned) + 1]
  /\ is_downloaded = [f \in Files |-> TRUE]
  /\ local_file = [f \in Files |-> TRUE]
  /\ processor_jobs = <<>>
  /\ assocs = <<>>
  /\ sent = <<>>
  /\ CommandIdle
  /\ helper_calls = <<>>
  /\ sample_source \in [ScannedSamples -> {"SRA", "GEO"}]
  /\ computed_files \in [ScannedSamples -> 0..1]
  /\ retry_pc = "start"
  /\ source_database = NULL
  /\ retry_exit = NULL
  /\ page = 0
  /\ page_pos = 0
  /\ passes = 0
  /\ downloader_jobs = <<>>
  /\ cooldowns = 0

RetryNext ==
  \/ RetryHandle
  \/ RetryWhile
  \/ RetrySample
  \/ RetrySleep

RetrySpec == RetryInit /\ [][RetryNext]_vars

\* ------------------------------------------- the job helper of test_geo.py
\* Mutant: the filename is not upper-cased before the test.
HelperPipeline_CaseSensitive(original_file, pipeline) ==
  IF pipeline # NULL THEN pipeline
  ELSE IF ~FileTable[original_file].has_raw THEN "NO_OP"
  ELSE IF Contains(CEL, FileTable[original_file].filename) THEN "AFFY_TO_PCL"
  ELSE "AGILENT_TWOCOLOR_TO_PCL"

\* The pipeline_applied the helper gives the job of one file.
HelperPipeline(original_file, pipeline) ==
  IF pipeline # NULL THEN pipeline
  ELSE IF ~FileTable[original_file].has_raw THEN "NO_OP"
  ELSE IF Contains(CEL, Upper(FileTable[original_file].filename)) THEN "AFFY_TO_PCL"
  ELSE "AGILENT_TWOCOLOR_TO_PCL"

\* create_processor_jobs_for_original_files_no_send(original_files, pipeline):
\* one saved job and one saved association per file.
create_processor_jobs_for_original_files_no_send(original_files, pipeline) ==
  /\ pc = <<>>
  /\ retry_pc = "idle"
  /\ Len(helper_calls) < MaxHelperCalls
  /\ processor_jobs' = processor_jobs \o
       [i \in 1..Len(original_files) |->
          [pipeline_applied |-> HelperPipeline(original_files[i], pipeline),
           ram_amount |-> NULL, call |-> 0]]
  /\ assocs' = assocs \o
       [i \in 1..Len(original_files) |->
          [processor_job |-> Len(processor_jobs) + i,
           original_file |-> original_files[i]]]
  /\ helper_calls' = Append(helper_calls,
       [original_files |-> original_files, pipeline |-> pipeline,
        first_job |-> Len(processor_jobs) + 1])
  /\ UNCHANGED <<dataVars, is_downloaded, local_file, sent, commandVars, retryVars>>

\* The file lists the helper is given: no file twice.
Batches ==
  {q \in SeqsUpTo(DOMAIN FileTable, MaxBatch) :
     \A i, j \in DOMAIN q : q[i] = q[j] => i = j}

PipelineArgs == {NULL, "SALMON", "NO_OP"}

HelperInit ==
  /\ results = <<>>
  /\ file_sample = [f \in Files |-> 1]
  /\ is_downloaded = [f \in Files |-> TRUE]
  /\ local_file = [f \in Files |-> TRUE]
  /\ processor_jobs = <<>>
  /\ assocs = <<>>
  /\ sent = <<>>
  /\ CommandIdle
  /\ RetryIdle
  /\ helper_calls = <<>>

HelperNext ==
  \E original_files \in Batches, pipeline \in PipelineArgs :
    create_processor_jobs_for_original_files_no_send(original_files, pipeline)

\* A store for the reconciliation command in which every sample has one
\* quantification result, sample by sample of the next organism index.
SelectorInit ==
  /\ Init
  /\ results = [i \in 1..MaxResults |->
                  [sample |-> ((i - 1) % MaxSamples) + 1,
                   processor |-> SALMON_QUANT,
                   index |-> ((i - 1) % 3) + 1]]

\* Both creators of processor jobs: the reconciliation command on its store,
\* or the helper on an empty one.
SelectorSpec == (SelectorInit \/ HelperInit) /\ [][Next \/ HelperNext]_vars

\* ----------------------------------------------------- claim vocabulary
JobsOfCall(c) == {j \in DOMAIN processor_jobs : processor_jobs[j].call = c}
AssocsOfJob(j) == {i \in DOMAIN assocs : assocs[i].processor_job = j}
FilesOfJob(j) == {assocs[i].original_file : i \in AssocsOfJob(j)}
CallsOfRun(r) == {c \in DOMAIN calls : calls[c].run = r}
JobsFor(r, s) ==
  {j \in DOMAIN processor_jobs :
     calls[processor_jobs[j].call].run = r /\ calls[processor_jobs[j].call].sample = s}

\* The distinct tool versions the experiment's quantification results show.
DistinctVersions(e) ==
  {IndexSalmonVersion(results[i].index) : i \in get_quant_results_for_experiment(e)}

\* The version of the newest organism index among the experiment's
\* quantification results: the head of the detector's version list.
LatestVersion(e) ==
  LET used == {results[i].index : i \in get_quant_results_for_experiment(e)}
  IN IndexSalmonVersion(CHOOSE x \in used :
                          \A y \in used : IndexCreatedAt(y) <= IndexCreatedAt(x))

\* The sample has a quantification result and its newest one is not of the
\* latest version.
IsStale(s, e) ==
  /\ NewestSalmonVersion(s) # NULL
  /\ NewestSalmonVersion(s) # LatestVersion(e)

\* The factory persists a job for these files: there is a file and the
\* pipeline selected for the first one is not NONE.
Processable(s) ==
  /\ OriginalFiles(s) # <<>>
  /\ determine_processor_pipeline(s, OriginalFiles(s)[1]) # "NONE"

ExactlyOneJobOver(r, s) ==
  /\ Cardinality(JobsFor(r, s)) = 1
  /\ \A j \in JobsFor(r, s) :
       /\ FilesOfJob(j) = Range(OriginalFiles(s))
       /\ Cardinality(AssocsOfJob(j)) = Len(OriginalFiles(s))

\* C1 as stated: after a detector run that returned, on an experiment showing
\* at least 2 distinct versions, every stale sample has exactly one new
\* ProcessorJob over exactly its own OriginalFiles and every other sample none.
C1_EveryStaleSampleGetsOneJob ==
  \A r \in DOMAIN runs :
    (runs[r].status = "returned"
       /\ Cardinality(DistinctVersions(runs[r].experiment)) >= 2)
    => \A s \in ExperimentSamples(runs[r].experiment) :
         IF IsStale(s, runs[r].experiment)
         THEN ExactlyOneJobOver(r, s)
         ELSE JobsFor(r, s) = {}

\* C1 amended: after a detector run that returned, on an experiment showing at
\* least 2 distinct versions, every stale sample that has at least one
\* OriginalFile whose first file's pipeline is not NONE has exactly one new
\* ProcessorJob over exactly its own OriginalFiles, and every other sample of
\* the experiment has none.
C1_StaleProcessableSamplesGetOneJob ==
  \A r \in DOMAIN runs :
    (runs[r].status = "returned"
       /\ Cardinality(DistinctVersions(runs[r].experiment)) >= 2)
    => \A s \in ExperimentSamples(runs[r].experiment) :
         IF IsStale(s, runs[r].experiment) /\ Processable(s)
         THEN ExactlyOneJobOver(r, s)
         ELSE JobsFor(r, s) = {}

\* A returned run that gave a stale sample its job and left a sample that is
\* at the latest version alone.
C1_Witness ==
  \E r \in DOMAIN runs :
    /\ runs[r].status = "returned"
    /\ Cardinality(DistinctVersions(runs[r].experiment)) >= 2
    /\ \E s, u \in ExperimentSamples(runs[r].experiment) :
         /\ IsStale(s, runs[r].experiment)
         /\ Cardinality(JobsFor(r, s)) = 1
         /\ Len(OriginalFiles(s)) >= 1
         /\ NewestSalmonVersion(u) = LatestVersion(runs[r].experiment)
         /\ OriginalFiles(u) # <<>>

\* C2: a detector run on an experiment showing at most one distinct version
\* (or no quantification result) returns without invoking the factory: no
\* job and no association exist on its behalf and no OriginalFile is touched.
C2_CurrentExperimentCreatesNothing ==
  \A r \in DOMAIN runs :
    Cardinality(DistinctVersions(runs[r].experiment)) <= 1
    => /\ runs[r].status # "raised"
       /\ CallsOfRun(r) = {}
       /\ \A s \in Samples : JobsFor(r, s) = {}
       /\ (Len(runs) = 1 /\ runs[r].status = "returned") =>
            /\ processor_jobs = <<>>
            /\ assocs = <<>>
            /\ sent = <<>>
            /\ \A f \in Files : is_downloaded[f] /\ local_file[f]

\* A returned run on an experiment whose samples were quantified with two
\* organism indices of one and the same version.
C2_Witness ==
  \E r \in DOMAIN runs :
    /\ runs[r].status = "returned"
    /\ Cardinality(DistinctVersions(runs[r].experiment)) = 1
    /\ Len(SalmonVersions(runs[r].experiment)) = 2
    /\ \E s \in ExperimentSamples(runs[r].experiment) : OriginalFiles(s) # <<>>

\* C3: a factory call that returned, for a non-empty file list whose pipeline
\* is not NONE, persisted exactly one job and exactly len(files) associations,
\* all of that job, one per input file and no job-file pair twice.
C3_OneJobAndOneAssociationPerFile ==
  \A c \in DOMAIN calls :
    (calls[c].status = "returned" /\ calls[c].files # <<>>
       /\ calls[c].pipeline # "NONE")
    => /\ Cardinality(JobsOfCall(c)) = 1
       /\ JobsOfCall(c) = {calls[c].job}
       /\ Cardinality(AssocsOfJob(calls[c].job)) = Len(calls[c].files)
       /\ FilesOfJob(calls[c].job) = Range(calls[c].files)
       /\ \A a, b \in AssocsOfJob(calls[c].job) :
            assocs[a].original_file = assocs[b].original_file => a = b

\* A returned call that persisted a job over two files.
C3_Witness ==
  \E c \in DOMAIN calls :
    /\ calls[c].status = "returned"
    /\ Len(calls[c].files) >= 2
    /\ calls[c].job # 0
    /\ Cardinality(AssocsOfJob(calls[c].job)) >= 2

\* C4: a step that invokes the factory with an empty file list returns at
\* once, raises nothing and leaves jobs, associations, files and the dispatch
\* queue as they were.
C4_EmptyCallChangesNothing ==
  [][(Len(calls') = Len(calls) + 1 /\ calls'[Len(calls')].files = <<>>)
       => /\ calls'[Len(calls')].status = "returned"
          /\ storeVars' = storeVars
          /\ pc' = pc
          /\ exit_status' = exit_status]_vars

\* The factory has been invoked with no file and the sweep has ended normally.
C4_Witness ==
  \E c \in DOMAIN calls :
    /\ calls[c].files = <<>>
    /\ calls[c].status = "returned"
    /\ pc[calls[c].proc] = "done"

\* C5: a factory call that returned with pipeline NONE cleared the downloaded
\* flag and the local copy of every file of its list and persisted no job;
\* and no step of the clearing loop changes jobs, associations or the
\* dispatch queue.
C5_NoneClearsEveryFile ==
  /\ [](\A c \in DOMAIN calls :
          (calls[c].status = "returned" /\ calls[c].pipeline = "NONE")
          => /\ \A f \in Range(calls[c].files) : ~is_downloaded[f] /\ ~local_file[f]
             /\ JobsOfCall(c) = {}
             /\ calls[c].job = 0)
  /\ [][(\E p \in Procs : pc[p] = "clear")
          => /\ processor_jobs' = processor_jobs
             /\ assocs' = assocs
             /\ sent' = sent]_vars

\* A returned NONE call over two files.
C5_Witness ==
  \E c \in DOMAIN calls :
    /\ calls[c].status = "returned"
    /\ calls[c].pipeline = "NONE"
    /\ Len(calls[c].files) >= 2
    /\ ~is_downloaded[calls[c].files[2]]

\* C6: a step in which the dispatch queue refuses the job raises nothing:
\* the process goes on with its sample loop, its queues of samples and
\* experiments are untouched, and jobs and associations stay as persisted.
C6_SendFailureIsAbsorbed ==
  [][\A p \in Procs :
       (pc[p] = "send" /\ pc'[p] # "send" /\ sent' = sent)
       => /\ pc'[p] = "samples"
          /\ exit_status' = exit_status
          /\ processor_jobs' = processor_jobs
          /\ assocs' = assocs
          /\ sample_queue' = sample_queue
          /\ exp_queue' = exp_queue
          /\ calls'[CurCall(p)].status = "returned"
          /\ runs' = runs]_vars

\* A job whose submission failed is still persisted with its associations,
\* and the sweep went on to a later factory call.
C6_Witness ==
  \E c, d \in DOMAIN calls :
    /\ c < d
    /\ calls[c].failure = "dispatch"
    /\ calls[c].status = "returned"
    /\ calls[c].job \in DOMAIN processor_jobs
    /\ Cardinality(AssocsOfJob(calls[c].job)) = Len(calls[c].files)
    /\ \A i \in DOMAIN sent : sent[i] # calls[c].job

\* C7 as stated: after any factory call, returned or aborted, either the job
\* and all len(files) associations are persisted or none of them is.
C7_AllOrNothing ==
  \A c \in DOMAIN calls :
    calls[c].status # "running"
    => \/ /\ JobsOfCall(c) = {}
          /\ calls[c].job = 0
       \/ /\ Cardinality(JobsOfCall(c)) = 1
          /\ Cardinality(AssocsOfJob(calls[c].job)) = Len(calls[c].files)

\* The filename contains "cel" in any letter case.
HasCelAnyCase(name) ==
  \E i \in 1..(Len(name) - 2) :
    /\ name[i] \in {"c", "C"}
    /\ name[i + 1] \in {"e", "E"}
    /\ name[i + 2] \in {"l", "L"}

\* The classification of a file, a file without raw data being given `unraw`.
Classification(file, unraw) ==
  IF ~FileTable[file].has_raw THEN unraw
  ELSE IF HasCelAnyCase(FileTable[file].filename) THEN "AFFY_TO_PCL"
  ELSE "AGILENT_TWOCOLOR_TO_PCL"

HelperJob(h, i) == processor_jobs[helper_calls[h].first_job + i - 1]

\* The factory's jobs record the classification of the first file of their
\* call, which is never NONE, and a call whose first file lacks raw data has
\* no job.
FactoryJobsRecordSelection ==
  /\ \A j \in DOMAIN processor_jobs :
       processor_jobs[j].call # 0
       => /\ processor_jobs[j].pipeline_applied =
               Classification(calls[processor_jobs[j].call].files[1], "NONE")
          /\ processor_jobs[j].pipeline_applied # "NONE"
  /\ \A c \in DOMAIN calls :
       (calls[c].files # <<>> /\ Classification(calls[c].files[1], "NONE") = "NONE")
       => JobsOfCall(c) = {}

DownloaderJobsInPass(s, n) ==
  {j \in DOMAIN downloader_jobs :
     downloader_jobs[j].sample = s /\ downloader_jobs[j].pass = n}

PageSamples == Range(PageObjects(sra_samples, PAGE_SIZE, page))

C10_EveryTurnAdvances ==
  [][(retry_pc = "sleep" /\ retry_pc' = "while")
       => NumPages(sra_samples, PAGE_SIZE) - page'
            < NumPages(sra_samples, PAGE_SIZE) - page]_vars

\* C11 as stated: a DownloaderJob is created only for samples whose source
\* registry equals the value given with --source-database.
C11_OnlySamplesOfTheGivenSourceGetJobs ==
  \A j \in DOMAIN downloader_jobs :
    sample_source[downloader_jobs[j].sample] = source_database

\* C12: a command process given an accession code that matches no Experiment
\* is exited with status 1 as soon as it has left its start, has invoked
\* neither the detector nor the factory, and its exit step leaves jobs,
\* associations, files and the dispatch queue as they were.
C12_UnknownAccessionCodeExitsUntouched ==
  /\ [](\A p \in Procs :
          (pc[p] # "start" /\ accession_code[p] \notin Experiments \cup {NULL})
          => /\ pc[p] = "exited"
             /\ exit_status[p] = 1
             /\ \A r \in DOMAIN runs : runs[r].proc # p
             /\ \A c \in DOMAIN calls : calls[c].proc # p
             /\ \A j \in DOMAIN processor_jobs :
                  processor_jobs[j].call # 0 => calls[processor_jobs[j].call].proc # p)
  /\ [][\A p \in Procs :
          (pc[p] = "start" /\ accession_code'[p] \notin Experiments \cup {NULL})
          => /\ storeVars' = storeVars
             /\ runs' = runs
             /\ calls' = calls]_vars

\* The command has exited on an unknown accession code although the first
\* experiment has a stale sample a sweep would have given a job.
C12_Witness ==
  \E p \in Procs :
    /\ accession_code[p] = "EX"
    /\ pc[p] = "exited"
    /\ exit_status[p] = 1
    /\ processor_jobs = <<>>
    /\ \E s \in ExperimentSamples("E1") : IsStale(s, "E1") /\ Processable(s)

\* C13: the retry command run without --source-database is exited with
\* status 1 as soon as it has left its start: no page has been fetched, the
\* loop was never entered and no DownloaderJob exists.
C13_MissingSourceDatabaseExitsBeforeAnyWork ==
  (retry_pc \notin {"idle", "start"} /\ source_database = NULL)
  => /\ retry_pc = "exited"
     /\ retry_exit = 1
     /\ page = 0
     /\ passes = 0
     /\ downloader_jobs = <<>>

\* The retry command has exited for want of the option although more than a
\* page of SRA samples without computed files is waiting.
C13_Witness ==
  /\ source_database = NULL
  /\ retry_pc = "exited"
  /\ retry_exit = 1
  /\ Len(sra_samples) > PAGE_SIZE
  /\ \E s \in Range(sra_samples) : computed_files[s] = 0

\* The experiment on whose behalf a job of the factory was created.
ExperimentOfJob(j) == runs[calls[processor_jobs[j].call].run].experiment

\* C14 as stated: in every run of the command, with or without
\* --accession-code, no ProcessorJob is created on behalf of an experiment
\* that is not of the RNA-sequencing technology or that has one or more
\* fully-processed samples.
C14_JobsOnlyForEligibleExperiments ==
  \A j \in DOMAIN processor_jobs :
    processor_jobs[j].call # 0
    => /\ Technology(ExperimentOfJob(j)) = "RNA-SEQ"
       /\ NumProcessedSamples(ExperimentOfJob(j)) = 0

\* C15 as stated: once no factory call is under way, each call having
\* returned or been aborted by a store or sizing failure, every association
\* references a persisted job and every persisted job has at least one
\* associated file.
C15_NoDanglingAssociationNoEmptyJob ==
  (\A c \in DOMAIN calls : calls[c].status # "running")
  => /\ \A a \in DOMAIN assocs : assocs[a].processor_job \in DOMAIN processor_jobs
     /\ \A j \in DOMAIN processor_jobs : AssocsOfJob(j) # {}

\* The tool version of the experiment's quantification result with the
\* greatest creation timestamp (the last row).
NewestResultVersion(e) ==
  LET mine == get_quant_results_for_experiment(e)
  IN IndexSalmonVersion(results[CHOOSE i \in mine : \A j \in mine : j <= i].index)

\* C16 as stated: the version a detector run treats as latest is the tool
\* version of the experiment's quantification result with the greatest
\* result creation timestamp.
C16_LatestIsVersionOfNewestResult ==
  \A r \in DOMAIN runs :
    runs[r].latest # NULL
    => runs[r].latest = NewestResultVersion(runs[r].experiment)

\* C17 as stated: when the retry command has terminated, every sample of the
\* scan that has zero computed files has received a forced DownloaderJob over
\* its OriginalFiles.
C17_OnTerminationEverySampleWasRetried ==
  retry_pc = "done"
  => \A s \in Range(sra_samples) :
       computed_files[s] = 0
       => \E j \in DOMAIN downloader_jobs :
            /\ downloader_jobs[j].sample = s
            /\ downloader_jobs[j].force
            /\ downloader_jobs[j].original_files = OriginalFiles(s)

\* The detector invocations of process p, and the place of one among them.
RunsOfProc(p) == {r \in DOMAIN runs : runs[r].proc = p}
RankOfRun(p, r) == Cardinality({q \in RunsOfProc(p) : q <= r})

\* C18: a sweep without --accession-code invokes the detector on the eligible
\* experiments in their order, each at most once and, when the sweep has
\* ended, each exactly once; a detector invocation has returned, with none of
\* its factory calls under way, before the next one starts, and the jobs of a
\* sweep are persisted in the order of the invocations they were created for.
C18_SweepVisitsEachEligibleExperimentOnce ==
  \A p \in Procs :
    (accession_code[p] = NULL /\ pc[p] # "start")
    => /\ Cardinality(RunsOfProc(p)) <= Len(SelectSeq(ExperimentOrder, IsEligible))
       /\ \A r \in RunsOfProc(p) :
            /\ runs[r].experiment =
                 SelectSeq(ExperimentOrder, IsEligible)[RankOfRun(p, r)]
            /\ RankOfRun(p, r) < Cardinality(RunsOfProc(p))
                 => /\ runs[r].status = "returned"
                    /\ \A c \in CallsOfRun(r) : calls[c].status = "returned"
       /\ pc[p] = "done"
            => /\ Cardinality(RunsOfProc(p)) = Len(SelectSeq(ExperimentOrder, IsEligible))
               /\ \A r \in RunsOfProc(p) : runs[r].status = "returned"
       /\ \A j, k \in DOMAIN processor_jobs :
            (j < k /\ processor_jobs[j].call # 0 /\ processor_jobs[k].call # 0
               /\ calls[processor_jobs[j].call].proc = p
               /\ calls[processor_jobs[k].call].proc = p)
            => calls[processor_jobs[j].call].run <= calls[processor_jobs[k].call].run

\* A sweep has ended after two detector invocations, each of which had a job
\* created.
C18_Witness ==
  \E p \in Procs :
    /\ accession_code[p] = NULL
    /\ pc[p] = "done"
    /\ Len(runs) = 2
    /\ \A r \in DOMAIN runs : \E s \in Samples : JobsFor(r, s) # {}

\* The page of the scan a sample is on.
PageOfSample(s) ==
  LET pos == CHOOSE i \in DOMAIN sra_samples : sra_samples[i] = s
  IN ((pos - 1) \div PAGE_SIZE) + 1

ReturnedRunOver(r, s) ==
  /\ runs[r].status = "returned"
  /\ Cardinality(DistinctVersions(runs[r].experiment)) >= 2
  /\ s \in ExperimentSamples(runs[r].experiment)
  /\ IsStale(s, runs[r].experiment)
  /\ Processable(s)

\* C20: when detector invocations of two concurrent command processes have
\* both returned for the same stale sample, each of them has persisted its
\* own job over that sample's files, whatever the other had persisted
\* before: nothing keeps the second from duplicating the first.
C20_ConcurrentSweepsEachCreateTheirJob ==
  \A r, q \in DOMAIN runs :
    runs[r].proc # runs[q].proc
    => \A s \in Samples :
         (ReturnedRunOver(r, s) /\ ReturnedRunOver(q, s))
         => /\ ExactlyOneJobOver(r, s)
            /\ ExactlyOneJobOver(q, s)
            /\ Cardinality(JobsFor(r, s) \cup JobsFor(q, s)) = 2

\* Two jobs of different processes over the files of the same sample, both
\* submitted.
C20_Witness ==
  \E j, k \in DOMAIN processor_jobs :
    /\ j # k
    /\ calls[processor_jobs[j].call].proc # calls[processor_jobs[k].call].proc
    /\ calls[processor_jobs[j].call].sample = calls[processor_jobs[k].call].sample
    /\ FilesOfJob(j) = FilesOfJob(k)
    /\ FilesOfJob(j) = Range(OriginalFiles(calls[processor_jobs[j].call].sample))
    /\ \E a, b \in DOMAIN sent : sent[a] = j /\ sent[b] = k

\* The samples a detector invocation called the factory for, and those it
\* had a job persisted for.
SamplesOfRun(r) == {calls[c].sample : c \in CallsOfRun(r)}
SamplesWithJob(r) == {s \in Samples : JobsFor(r, s) # {}}

\* C21: of two detector invocations on the same experiment that both
\* returned, the later one called the factory for the same samples as the
\* earlier one, whatever jobs the earlier one had left, and had a job of its
\* own persisted for exactly the samples the earlier one had, one job each.
C21_SecondRunRepeatsTheFirst ==
  \A r, q \in DOMAIN runs :
    (r < q /\ runs[r].experiment = runs[q].experiment
       /\ runs[r].status = "returned" /\ runs[q].status = "returned")
    => /\ SamplesOfRun(q) = SamplesOfRun(r)
       /\ SamplesWithJob(q) = SamplesWithJob(r)
       /\ \A s \in Samples :
            /\ Cardinality(JobsFor(q, s)) = Cardinality(JobsFor(r, s))
            /\ JobsFor(q, s) \cap JobsFor(r, s) = {}
            /\ \A j \in JobsFor(r, s), k \in JobsFor(q, s) :
                 FilesOfJob(k) = FilesOfJob(j)

\* The detector ran on an experiment after an earlier invocation on it had
\* returned with a submitted job for a sample, and has returned with a new
\* job for that sample.
C21_Witness ==
  \E r, q \in DOMAIN runs :
    /\ r < q
    /\ runs[r].experiment = runs[q].experiment
    /\ runs[r].status = "returned"
    /\ runs[q].status = "returned"
    /\ \E s \in Samples :
         \E j \in JobsFor(r, s), k \in JobsFor(q, s) :
           /\ j < k
           /\ calls[processor_jobs[k].call].run = q
           /\ \E i \in DOMAIN sent : sent[i] = j

\* C22: the step in which the sizing policy fails ends the factory call and
\* the process with the exception and leaves jobs, associations, files and
\* the dispatch queue as they were; the call never has a job.
C22_SizingFailurePersistsNothing ==
  /\ [](\A c \in DOMAIN calls :
          calls[c].failure = "sizing"
          => /\ calls[c].status = "raised"
             /\ calls[c].job = 0
             /\ JobsOfCall(c) = {}
             /\ runs[calls[c].run].status = "raised"
             /\ pc[calls[c].proc] = "aborted"
             /\ exit_status[calls[c].proc] = 1)
  /\ [][(Len(calls') = Len(calls) + 1 /\ calls'[Len(calls')].failure = "sizing")
          => storeVars' = storeVars]_vars

\* The sizing policy has failed in a call over two files whose first file
\* is a raw one: the process is aborted and the store is as it was.
C22_Witness ==
  \E c \in DOMAIN calls :
    /\ calls[c].failure = "sizing"
    /\ Len(calls[c].files) >= 2
    /\ calls[c].pipeline \in {"AFFY_TO_PCL", "AGILENT_TWOCOLOR_TO_PCL"}
    /\ pc[calls[c].proc] = "aborted"
    /\ processor_jobs = <<>>
    /\ assocs = <<>>
    /\ sent = <<>>
    /\ \A f \in Files : is_downloaded[f] /\ local_file[f]

====
